---- MODULE Spec2Model ----
(***************************************************************************)
(* Model of rusty-shooter's asynchronous level loading (src/main.rs: Game, *)
(* LoadContext, the loader thread) and of its actor container              *)
(* (src/actor.rs: ActorContainer over an rg3d Pool).                       *)
(*                                                                         *)
(* Spec         the Game main loop and the loader threads                  *)
(* SpecActors   ActorContainer: add, free, update                          *)
(* SpecContact  ActorContainer: add, free, handle_event                    *)
(* SpecHarness  ActorContainer: add, update, the receiver possibly dropped *)
(* SpecVisit    Visit for Actor: writing and reading the kind tag          *)
(***************************************************************************)
EXTENDS Integers, Sequences, FiniteSets, TLC

VARIABLES
    \* ---- Game (src/main.rs) ----
    level,            \* Game.level: Option<Level>
    load_context,     \* Game.load_context: 0 = None, c = Some(Arc of LoadContext c)
    ctx_level,        \* LoadContext.level of every allocated context
    lock_holder,      \* the Mutex around every LoadContext: "free", "main", "loader"
    thread,           \* position of every loader thread
    thread_ctx,       \* the context captured by every loader thread's closure
    n_loads,          \* number of start_new_game calls made so far
    queue,            \* the mpsc channel events_sender -> events_receiver
    pc,               \* position of the main thread
    menu_visible,     \* requested visibility of the menu root
    hud_visible,      \* requested visibility of the HUD root
    loading_visible,  \* requested visibility of loading_screen.root
    leader_board_visible,
    running,          \* Game.running
    poll,             \* what the load poll of the running update did
    ctx_writes,       \* per context: number of writes of its level field
    ctx_takes,        \* per context: number of take() calls that returned Some
    load_error,       \* what the load_game call of this handle_messages run logged
    \* ---- ActorContainer (src/actor.rs) ----
    records,          \* Pool.records: per slot [generation, payload]
    free_stack,       \* Pool.free_stack
    target_descriptors,
    apc,              \* position inside the running ActorContainer call
    cursor,           \* pool index the running loop is at
    arg,              \* argument of the running call (handle of free)
    context,          \* UpdateContext of the running call
    sent,             \* messages sent on the actors' channel by the running update
    issued,           \* handles returned by add so far
    freed,            \* handles freed so far
    notified,         \* pool indices of bots notified by the running free
    pre_dead,         \* per pool index: is_dead captured before update in this tick
    \* ---- Visit for Actor (src/actor.rs) ----
    visitor,          \* the Visitor: reading flag and the regions it holds
    visited,          \* the actors the visitor is run over, in order
    vcursor,          \* index of the actor the running visit is at
    vpc,              \* position of the running visit
    vresult,          \* VisitResult of the finished visit
    written           \* the actors as they were when the visitor was written

gameVars == <<level, load_context, ctx_level, lock_holder, thread, thread_ctx,
              n_loads, queue, pc, menu_visible, hud_visible, loading_visible,
              leader_board_visible, running, poll, ctx_writes, ctx_takes,
              load_error>>

actorVars == <<records, free_stack, target_descriptors, apc, cursor, arg,
               context, sent, issued, freed, notified, pre_dead>>

visitVars == <<visitor, visited, vcursor, vpc, vresult, written>>

vars == <<gameVars, actorVars, visitVars>>

----------------------------------------------------------------------------
(* Bounds *)

MaxLoads == 2      \* start_new_game calls explored
MaxQueue == 2      \* messages in flight explored
MaxTag == 3        \* largest stored kind tag explored (a u8 in the code)
MaxVisited == 2    \* actors per visitor run explored

----------------------------------------------------------------------------
(* Game: values *)

NoLevel == [kind |-> "none", id |-> 0]
NewLevel(t) == [kind |-> "new", id |-> t]
SavedLevel == [kind |-> "saved", id |-> 0]

Loads == 1..MaxLoads

MenuMessages == {"StartNewGame", "SaveGame", "LoadGame", "QuitGame"}
LevelMessages == {"EndMatch", "Other"}

LoadOutcomes == {"no_file", "engine_err", "level_err", "ok_level", "ok_no_level"}

\* Result<T, String>
Ok(v) == [ok |-> TRUE, value |-> v]
Err(e) == [ok |-> FALSE, value |-> e]

Tags == 0..MaxTag

\* Actor::from_id: the variant (with default data) a kind tag stands for.
from_id_Swapped(kind_id) ==
    IF kind_id = 0 THEN Ok("Bot")
    ELSE IF kind_id = 1 THEN Ok("Player")
    ELSE Err(<<"Unknown actor kind", kind_id>>)
from_id(kind_id) ==
    IF kind_id = 0 THEN Ok("Player")
    ELSE IF kind_id = 1 THEN Ok("Bot")
    ELSE Err(<<"Unknown actor kind", kind_id>>)

\* Actor::id: the kind tag of a variant.
id(actor) == IF actor.kind = "Player" THEN 0 ELSE 1

\* What a save file holds, as far as load_game's outcome depends on it:
\* whether Visitor::load_binary can read it, whether the engine's part
\* visits cleanly, whether a level was saved, and the kind tag of an actor
\* of that level.
SaveFiles == [readable : BOOLEAN, engine_ok : BOOLEAN, has_level : BOOLEAN,
              KindId : Tags]

\* The first `?` of load_game that returns, lines 467-481.
load_outcome(save) ==
    IF ~save.readable THEN "no_file"
    ELSE IF ~save.engine_ok THEN "engine_err"
    ELSE IF ~save.has_level THEN "ok_no_level"
    ELSE IF from_id(save.KindId).ok THEN "ok_level"
    ELSE "level_err"

RECURSIVE CountOf(_, _)
CountOf(s, m) ==
    IF s = <<>> THEN 0
    ELSE (IF Head(s) = m THEN 1 ELSE 0) + CountOf(Tail(s), m)

----------------------------------------------------------------------------
(* Game: construction (Game::run builds the Game, then enters the loop)    *)

InitGame ==
    /\ level = NoLevel
    /\ load_context = 0
    /\ ctx_level = [c \in Loads |-> NoLevel]
    /\ lock_holder = [c \in Loads |-> "free"]
    /\ thread = [t \in Loads |-> "unspawned"]
    /\ thread_ctx = [t \in Loads |-> 0]
    /\ n_loads = 0
    /\ queue = <<>>
    /\ pc = "idle"
    /\ menu_visible = TRUE
    /\ hud_visible = FALSE
    /\ loading_visible = FALSE
    /\ leader_board_visible = FALSE
    /\ running = TRUE
    /\ poll = "none"
    /\ ctx_writes = [c \in Loads |-> 0]
    /\ ctx_takes = [c \in Loads |-> 0]
    /\ load_error = "none"

----------------------------------------------------------------------------
(* Game: the loader thread, the closure spawned by start_new_game          *)

\* Level::new runs to completion on the loader thread; it is given a clone
\* of events_sender (lines 533-541) and may send on it.
LoaderBuild(t) ==
    /\ thread[t] = "building"
    /\ thread' = [thread EXCEPT ![t] = "built"]
    /\ \/ UNCHANGED queue
       \/ /\ Len(queue) < MaxQueue
          /\ queue' = Append(queue, "Other")
    /\ UNCHANGED <<level, load_context, ctx_level, lock_holder, thread_ctx,
                   n_loads, pc, menu_visible, hud_visible,
                   loading_visible, leader_board_visible, running, poll,
                   ctx_writes, ctx_takes>>
    /\ UNCHANGED <<load_error, actorVars, visitVars>>

\* ctx.lock(): blocks until the mutex of the captured context is free.
LoaderLock(t) ==
    /\ thread[t] = "built"
    /\ lock_holder[thread_ctx[t]] = "free"
    /\ lock_holder' = [lock_holder EXCEPT ![thread_ctx[t]] = "loader"]
    /\ thread' = [thread EXCEPT ![t] = "locked"]
    /\ UNCHANGED <<level, load_context, ctx_level, thread_ctx, n_loads, queue,
                   pc, menu_visible, hud_visible, loading_visible,
                   leader_board_visible, running, poll, ctx_writes, ctx_takes>>
    /\ UNCHANGED <<load_error, actorVars, visitVars>>

\* .level = Some(level); the guard is dropped at the end of the statement.
LoaderStore_KeepsLock(t) ==
    /\ thread[t] = "locked"
    /\ ctx_level' = [ctx_level EXCEPT ![thread_ctx[t]] = NewLevel(t)]
    /\ ctx_writes' = [ctx_writes EXCEPT ![thread_ctx[t]] = @ + 1]
    /\ thread' = [thread EXCEPT ![t] = "done"]
    /\ UNCHANGED <<level, load_context, thread_ctx, n_loads, queue, pc,
                   menu_visible, hud_visible, loading_visible,
                   leader_board_visible, running, poll, ctx_takes,
                   lock_holder>>
    /\ UNCHANGED <<load_error, actorVars, visitVars>>

LoaderStore(t) ==
    /\ thread[t] = "locked"
    /\ ctx_level' = [ctx_level EXCEPT ![thread_ctx[t]] = NewLevel(t)]
    /\ ctx_writes' = [ctx_writes EXCEPT ![thread_ctx[t]] = @ + 1]
    /\ lock_holder' = [lock_holder EXCEPT ![thread_ctx[t]] = "free"]
    /\ thread' = [thread EXCEPT ![t] = "done"]
    /\ UNCHANGED <<level, load_context, thread_ctx, n_loads, queue, pc,
                   menu_visible, hud_visible, loading_visible,
                   leader_board_visible, running, poll, ctx_takes>>
    /\ UNCHANGED <<load_error, actorVars, visitVars>>

----------------------------------------------------------------------------
(* Game: the main thread                                                   *)

\* Mutex::try_lock succeeds iff nobody holds the mutex; it never waits.
BlockingLock(c) == TRUE
try_lock(c) == lock_holder[c] = "free"

\* Arc::new(Mutex::new(LoadContext { level: None })) of the n-th call.
ReuseContext(n) == IF load_context # 0 THEN load_context ELSE n
NewContext(n) == n

\* Game::update, lines 564-565: the load poll starts.
UpdatePoll ==
    /\ pc = "idle"
    /\ IF load_context = 0
         THEN /\ pc' = "engine"
              /\ poll' = "no_context"
              /\ UNCHANGED lock_holder
         ELSE IF try_lock(load_context)
                THEN /\ lock_holder[load_context] = "free"
                     /\ lock_holder' = [lock_holder EXCEPT ![load_context] = "main"]
                     /\ pc' = "locked"
                     /\ poll' = "acquired"
                ELSE /\ pc' = "engine"
                     /\ poll' = "busy"
                     /\ UNCHANGED lock_holder
    /\ UNCHANGED <<level, load_context, ctx_level, thread, thread_ctx, n_loads,
                   queue, menu_visible, hud_visible, loading_visible,
                   leader_board_visible, running, ctx_writes, ctx_takes>>
    /\ UNCHANGED <<load_error, actorVars, visitVars>>

\* Game::update, lines 566-587, under the lock: take the result and commit
\* it, or report progress; the guard is dropped at the end of the block.
UpdateCommit_HidesAlways ==
    /\ pc = "locked"
    /\ IF ctx_level[load_context] # NoLevel
         THEN /\ level' = ctx_level[load_context]
              /\ ctx_level' = [ctx_level EXCEPT ![load_context] = NoLevel]
              /\ ctx_takes' = [ctx_takes EXCEPT ![load_context] = @ + 1]
              /\ load_context' = 0
              /\ menu_visible' = FALSE
              /\ hud_visible' = TRUE
              /\ poll' = "swap"
         ELSE /\ poll' = "progress"
              /\ UNCHANGED <<level, ctx_level, ctx_takes, load_context,
                             menu_visible, hud_visible>>
    /\ loading_visible' = FALSE
    /\ lock_holder' = [lock_holder EXCEPT ![load_context] = "free"]
    /\ pc' = "engine"
    /\ UNCHANGED <<thread, thread_ctx, n_loads, queue, leader_board_visible,
                   running, ctx_writes>>
    /\ UNCHANGED <<load_error, actorVars, visitVars>>

UpdateCommit_KeepsContext ==
    /\ pc = "locked"
    /\ IF ctx_level[load_context] # NoLevel
         THEN /\ level' = ctx_level[load_context]
              /\ ctx_level' = [ctx_level EXCEPT ![load_context] = NoLevel]
              /\ ctx_takes' = [ctx_takes EXCEPT ![load_context] = @ + 1]
              /\ menu_visible' = FALSE
              /\ hud_visible' = TRUE
              /\ loading_visible' = FALSE
              /\ poll' = "swap"
         ELSE /\ poll' = "progress"
              /\ UNCHANGED <<level, ctx_level, ctx_takes, menu_visible,
                             hud_visible, loading_visible>>
    /\ UNCHANGED load_context
    /\ lock_holder' = [lock_holder EXCEPT ![load_context] = "free"]
    /\ pc' = "engine"
    /\ UNCHANGED <<thread, thread_ctx, n_loads, queue, leader_board_visible,
                   running, ctx_writes>>
    /\ UNCHANGED <<load_error, actorVars, visitVars>>

UpdateCommit ==
    /\ pc = "locked"
    /\ IF ctx_level[load_context] # NoLevel
         THEN /\ level' = ctx_level[load_context]
              /\ ctx_level' = [ctx_level EXCEPT ![load_context] = NoLevel]
              /\ ctx_takes' = [ctx_takes EXCEPT ![load_context] = @ + 1]
              /\ load_context' = 0
              /\ menu_visible' = FALSE
              /\ hud_visible' = TRUE
              /\ loading_visible' = FALSE
              /\ poll' = "swap"
         ELSE /\ poll' = "progress"
              /\ UNCHANGED <<level, ctx_level, ctx_takes, load_context,
                             menu_visible, hud_visible, loading_visible>>
    /\ lock_holder' = [lock_holder EXCEPT ![load_context] = "free"]
    /\ pc' = "engine"
    /\ UNCHANGED <<thread, thread_ctx, n_loads, queue, leader_board_visible,
                   running, ctx_writes>>
    /\ UNCHANGED <<load_error, actorVars, visitVars>>

\* Game::update, lines 590-611: engine.update and level.update; a live level
\* may send messages (EndMatch when a limit is reached, gameplay messages).
UpdateEngine ==
    /\ pc = "engine"
    /\ pc' = "messages"
    /\ poll' = "none"
    /\ \/ UNCHANGED queue
       \/ /\ level # NoLevel
          /\ Len(queue) < MaxQueue
          /\ \E m \in LevelMessages : queue' = Append(queue, m)
    /\ UNCHANGED <<level, load_context, ctx_level, lock_holder, thread,
                   thread_ctx, n_loads, menu_visible, hud_visible,
                   loading_visible, leader_board_visible, running,
                   ctx_writes, ctx_takes>>
    /\ UNCHANGED <<load_error, actorVars, visitVars>>

\* Game::start_new_game.
start_new_game_KeepsLevel ==
    /\ n_loads' = n_loads + 1
    /\ UNCHANGED level
    /\ load_context' = NewContext(n_loads + 1)
    /\ loading_visible' = TRUE
    /\ menu_visible' = FALSE
    /\ thread' = [thread EXCEPT ![n_loads + 1] = "building"]
    /\ thread_ctx' = [thread_ctx EXCEPT ![n_loads + 1] = NewContext(n_loads + 1)]
    /\ UNCHANGED <<ctx_level, lock_holder, hud_visible, leader_board_visible,
                   running, poll, ctx_writes, ctx_takes>>

start_new_game_ScreenHidden ==
    /\ n_loads' = n_loads + 1
    /\ level' = NoLevel
    /\ load_context' = NewContext(n_loads + 1)
    /\ UNCHANGED loading_visible
    /\ menu_visible' = FALSE
    /\ thread' = [thread EXCEPT ![n_loads + 1] = "building"]
    /\ thread_ctx' = [thread_ctx EXCEPT ![n_loads + 1] = NewContext(n_loads + 1)]
    /\ UNCHANGED <<ctx_level, lock_holder, hud_visible, leader_board_visible,
                   running, poll, ctx_writes, ctx_takes>>

start_new_game_KeepsOldContext ==
    /\ n_loads' = n_loads + 1
    /\ level' = NoLevel
    /\ load_context' = IF load_context # 0 THEN load_context
                       ELSE NewContext(n_loads + 1)
    /\ loading_visible' = TRUE
    /\ menu_visible' = FALSE
    /\ thread' = [thread EXCEPT ![n_loads + 1] = "building"]
    /\ thread_ctx' = [thread_ctx EXCEPT ![n_loads + 1] = NewContext(n_loads + 1)]
    /\ UNCHANGED <<ctx_level, lock_holder, hud_visible, leader_board_visible,
                   running, poll, ctx_writes, ctx_takes>>

start_new_game ==
    /\ n_loads' = n_loads + 1
    /\ level' = NoLevel                                      \* destroy_level
    /\ load_context' = NewContext(n_loads + 1)
    /\ loading_visible' = TRUE
    /\ menu_visible' = FALSE
    /\ thread' = [thread EXCEPT ![n_loads + 1] = "building"]  \* thread::spawn
    /\ thread_ctx' = [thread_ctx EXCEPT ![n_loads + 1] = NewContext(n_loads + 1)]
    /\ UNCHANGED <<ctx_level, lock_holder, hud_visible, leader_board_visible,
                   running, poll, ctx_writes, ctx_takes>>

\* Game::load_game; outcome is what the save file and the visits yield.
load_game_HidesFirst(outcome) ==
    /\ outcome \in LoadOutcomes
    /\ IF outcome = "no_file"
         THEN UNCHANGED <<level, menu_visible, hud_visible>>
         ELSE /\ level' = IF outcome = "ok_level" THEN SavedLevel ELSE NoLevel
              /\ menu_visible' = FALSE
              /\ hud_visible' = TRUE
    /\ load_error' = IF outcome \in {"no_file", "engine_err", "level_err"}
                       THEN outcome ELSE "none"
    /\ UNCHANGED <<load_context, ctx_level, lock_holder, thread, thread_ctx,
                   n_loads, loading_visible, leader_board_visible, running,
                   poll, ctx_writes, ctx_takes>>

load_game(outcome) ==
    /\ outcome \in LoadOutcomes
    /\ IF outcome = "no_file"
         THEN UNCHANGED <<level, menu_visible, hud_visible>>
         ELSE IF outcome \in {"engine_err", "level_err"}
                THEN /\ level' = NoLevel                     \* destroy_level
                     /\ UNCHANGED <<menu_visible, hud_visible>>
                ELSE /\ level' = IF outcome = "ok_level" THEN SavedLevel ELSE NoLevel
                     /\ menu_visible' = FALSE
                     /\ hud_visible' = TRUE
    \* handle_messages logs the Err that load_game returns, lines 633-640
    /\ load_error' = IF outcome \in {"no_file", "engine_err", "level_err"}
                       THEN outcome ELSE "none"
    /\ UNCHANGED <<load_context, ctx_level, lock_holder, thread, thread_ctx,
                   n_loads, loading_visible, leader_board_visible, running,
                   poll, ctx_writes, ctx_takes>>

\* Game::handle_messages: one iteration of the try_recv loop per message.
HandleStartNewGame ==
    /\ pc = "messages"
    /\ queue # <<>> /\ Head(queue) = "StartNewGame"
    /\ queue' = Tail(queue)
    /\ start_new_game
    /\ UNCHANGED pc
    /\ UNCHANGED <<load_error, actorVars, visitVars>>

HandleSaveGame ==
    /\ pc = "messages"
    /\ queue # <<>> /\ Head(queue) = "SaveGame"
    /\ queue' = Tail(queue)
    /\ UNCHANGED <<level, load_context, ctx_level, lock_holder, thread,
                   thread_ctx, n_loads, pc, menu_visible, hud_visible,
                   loading_visible, leader_board_visible, running, poll,
                   ctx_writes, ctx_takes>>
    /\ UNCHANGED <<load_error, actorVars, visitVars>>

HandleLoadGame ==
    /\ pc = "messages"
    /\ queue # <<>> /\ Head(queue) = "LoadGame"
    /\ queue' = Tail(queue)
    /\ \E save \in SaveFiles : load_game(load_outcome(save))
    /\ UNCHANGED pc
    /\ UNCHANGED <<actorVars, visitVars>>

HandleQuitGame ==
    /\ pc = "messages"
    /\ queue # <<>> /\ Head(queue) = "QuitGame"
    /\ queue' = Tail(queue)
    /\ level' = NoLevel                                      \* destroy_level
    /\ running' = FALSE
    /\ UNCHANGED <<load_context, ctx_level, lock_holder, thread, thread_ctx,
                   n_loads, pc, menu_visible, hud_visible, loading_visible,
                   leader_board_visible, poll, ctx_writes, ctx_takes>>
    /\ UNCHANGED <<load_error, actorVars, visitVars>>

HandleEndMatch ==
    /\ pc = "messages"
    /\ queue # <<>> /\ Head(queue) = "EndMatch"
    /\ queue' = Tail(queue)
    /\ level' = NoLevel                                      \* destroy_level
    /\ leader_board_visible' = TRUE
    /\ UNCHANGED <<load_context, ctx_level, lock_holder, thread, thread_ctx,
                   n_loads, pc, menu_visible, hud_visible, loading_visible,
                   running, poll, ctx_writes, ctx_takes>>
    /\ UNCHANGED <<load_error, actorVars, visitVars>>

HandleOther_SkipsNext ==
    /\ pc = "messages"
    /\ queue # <<>> /\ Head(queue) = "Other"
    /\ queue' = IF Len(queue) > 1 THEN Tail(Tail(queue)) ELSE Tail(queue)
    /\ UNCHANGED <<level, load_context, ctx_level, lock_holder, thread,
                   thread_ctx, n_loads, pc, menu_visible, hud_visible,
                   loading_visible, leader_board_visible, running, poll,
                   ctx_writes, ctx_takes>>
    /\ UNCHANGED <<load_error, actorVars, visitVars>>

HandleOther ==
    /\ pc = "messages"
    /\ queue # <<>> /\ Head(queue) = "Other"
    /\ queue' = Tail(queue)
    /\ UNCHANGED <<level, load_context, ctx_level, lock_holder, thread,
                   thread_ctx, n_loads, pc, menu_visible, hud_visible,
                   loading_visible, leader_board_visible, running, poll,
                   ctx_writes, ctx_takes>>
    /\ UNCHANGED <<load_error, actorVars, visitVars>>

\* try_recv returns Err on the empty channel: handle_messages and update end.
UpdateEnd ==
    /\ pc = "messages"
    /\ queue = <<>>
    /\ pc' = "idle"
    /\ load_error' = "none"
    /\ UNCHANGED <<level, load_context, ctx_level, lock_holder, thread,
                   thread_ctx, n_loads, queue, menu_visible, hud_visible,
                   loading_visible, leader_board_visible, running, poll,
                   ctx_writes, ctx_takes>>
    /\ UNCHANGED <<actorVars, visitVars>>

\* Game::process_input_event on a pressed Escape key.
PressEscape ==
    /\ pc = "idle"
    /\ menu_visible' = ~menu_visible
    /\ hud_visible' = menu_visible
    /\ UNCHANGED <<level, load_context, ctx_level, lock_holder, thread,
                   thread_ctx, n_loads, queue, pc, loading_visible,
                   leader_board_visible, running, poll, ctx_writes, ctx_takes>>
    /\ UNCHANGED <<load_error, actorVars, visitVars>>

\* The menu's buttons send their message on a clone of events_sender
\* (Menu::new receives tx.clone()); the menu handles UI events between
\* updates, and only a visible menu is clicked.
MenuSend(m) ==
    /\ pc = "idle"
    /\ menu_visible
    /\ m \in MenuMessages
    /\ Len(queue) < MaxQueue
    /\ m = "StartNewGame" => n_loads + CountOf(queue, "StartNewGame") < MaxLoads
    /\ queue' = Append(queue, m)
    /\ UNCHANGED <<level, load_context, ctx_level, lock_holder, thread,
                   thread_ctx, n_loads, pc, menu_visible, hud_visible,
                   loading_visible, leader_board_visible, running, poll,
                   ctx_writes, ctx_takes>>
    /\ UNCHANGED <<load_error, actorVars, visitVars>>

\* Game::run: the loop exits after MainEventsCleared once running is false,
\* or on CloseRequested (which destroys the level first).
ExitLoop ==
    /\ pc = "idle"
    /\ ~running
    /\ pc' = "exited"
    /\ UNCHANGED <<level, load_context, ctx_level, lock_holder, thread,
                   thread_ctx, n_loads, queue, menu_visible, hud_visible,
                   loading_visible, leader_board_visible, running, poll,
                   ctx_writes, ctx_takes>>
    /\ UNCHANGED <<load_error, actorVars, visitVars>>

CloseRequested ==
    /\ pc = "idle"
    /\ level' = NoLevel                                      \* destroy_level
    /\ pc' = "exited"
    /\ UNCHANGED <<load_context, ctx_level, lock_holder, thread, thread_ctx,
                   n_loads, queue, menu_visible, hud_visible, loading_visible,
                   leader_board_visible, running, poll, ctx_writes, ctx_takes>>
    /\ UNCHANGED <<load_error, actorVars, visitVars>>

MainStep ==
    \/ UpdatePoll
    \/ UpdateCommit
    \/ UpdateEngine
    \/ HandleStartNewGame
    \/ HandleSaveGame
    \/ HandleLoadGame
    \/ HandleQuitGame
    \/ HandleEndMatch
    \/ HandleOther
    \/ UpdateEnd

----------------------------------------------------------------------------
(* ActorContainer: values                                                  *)

MaxAdds == 2       \* add calls explored (so at most MaxAdds slots and generations)

\* Lengths are in units of 0.25 world units: the pickup radius 1.25 is 5.
PickupRadius == 5

NONE == [index |-> 0, generation |-> 0]          \* Handle::NONE
MkHandle(i, g) == [index |-> i, generation |-> g]

Origin == <<0, 0, 0>>

\* An actor: the Character fields ActorContainer reads (health, sender),
\* the Bot's target, whether the variant's despawn condition has elapsed,
\* and the translation of the actor's rigid body in the scene's physics.
NoActor == [kind |-> "none", health |-> 0, despawn |-> FALSE,
            target |-> NONE, sender |-> FALSE, position |-> Origin]

Kinds == {"Bot", "Player"}

Items == {1, 2}
ItemPos(k) == IF k = 1 THEN <<0, 0, 0>> ELSE <<8, 0, 0>>
Positions == {<<3, 4, 0>>, <<4, 0, 0>>}

JumpPads == {1, 2}
PadBody(j) == 10 + j                 \* JumpPad::rigid_body
PadCollider(j) == 10 + j             \* the collider attached to that body
PadForce(j) == <<0, 5 + j, 0>>       \* JumpPad::get_force
OtherColliders == {20}               \* colliders of the static level geometry
Velocities == {<<0, 0, 0>>, <<1, 0, 0>>}

NoEvent == [kind |-> "none", a |-> 0, b |-> 0]

\* linvel_before keeps the velocities the bodies had when handle_event
\* was called.
NoContext == [pos |-> <<>>, picked |-> <<>>, receiver |-> TRUE,
              event |-> NoEvent, linvel |-> <<>>, linvel_before |-> <<>>]

Slots == 1..Len(records)
Occupied(i) == i \in Slots /\ records[i].payload # NoActor
HandleAt(i) == MkHandle(i, records[i].generation)
LiveHandles == {HandleAt(i) : i \in {j \in Slots : Occupied(j)}}

----------------------------------------------------------------------------
(* The rg3d Pool behind ActorContainer.pool (spec section 4.1)             *)

\* valid iff the slot is occupied and its generation is the handle's.
is_valid_handle(h) ==
    /\ h.index \in Slots
    /\ records[h.index].payload # NoActor
    /\ records[h.index].generation = h.generation

\* spawn: reuse the most recently freed slot, else push a new record.
spawn_index == IF free_stack # <<>> THEN free_stack[Len(free_stack)]
               ELSE Len(records) + 1

spawn_records(actor) ==
    IF free_stack # <<>>
      THEN [records EXCEPT ![spawn_index].payload = actor]
      ELSE Append(records, [generation |-> 1, payload |-> actor])

spawn_free_stack ==
    IF free_stack # <<>> THEN SubSeq(free_stack, 1, Len(free_stack) - 1)
    ELSE free_stack

\* free: empty the slot, bump its generation, remember the index as free.
pool_free_records(h) ==
    [records EXCEPT ![h.index] =
        [generation |-> @.generation + 1, payload |-> NoActor]]

alive_count == Cardinality({i \in Slots : Occupied(i)})

----------------------------------------------------------------------------
(* Character, Bot and Player as far as ActorContainer uses them            *)

is_dead(actor) == actor.health <= 0

can_be_removed(actor) == actor.health <= 0 /\ actor.despawn

\* Bot::on_actor_removed: drop the reference to the removed actor.
on_actor_removed(actor, h) ==
    IF actor.target = h THEN [actor EXCEPT !.target = NONE] ELSE actor

\* Bot::update picks its target among the snapshot's other actors with
\* positive health (or none); Player::update reads input only.
Targets(self) ==
    {NONE} \cup {target_descriptors[n].handle : n \in
                   {m \in 1..Len(target_descriptors) :
                       /\ target_descriptors[m].handle # self
                       /\ target_descriptors[m].health > 0}}

\* The states a variant's update can leave the actor in.
Updated(actor, self) ==
    {u \in {[kind |-> actor.kind, health |-> hp, despawn |-> ds,
              target |-> tg, sender |-> actor.sender,
              position |-> actor.position] :
                hp \in {actor.health, 0}, ds \in {actor.despawn, TRUE},
                tg \in (IF actor.kind = "Bot" THEN Targets(self) ELSE {NONE})} :
        u.despawn => u.health <= 0}

----------------------------------------------------------------------------
(* ActorContainer: construction and the small methods                      *)

InitActors ==
    /\ records = <<>>
    /\ free_stack = <<>>
    /\ target_descriptors = <<>>
    /\ apc = "idle"
    /\ cursor = 0
    /\ arg = NONE
    /\ context = NoContext
    /\ sent = <<>>
    /\ issued = {}
    /\ freed = {}
    /\ notified = {}
    /\ pre_dead = {}

\* ActorContainer::contains
ContainsIgnoringGeneration(h) == Occupied(h.index)
contains(h) == is_valid_handle(h)

\* ActorContainer::count
CountRecords == Len(records)
count == alive_count

\* Actors the level hands to add: alive, with the channel's sender set.
NewActors ==
    {[kind |-> k, health |-> 1, despawn |-> FALSE, target |-> NONE,
      sender |-> TRUE, position |-> p] : k \in Kinds, p \in Positions}

\* Actors built without a sender (Character::default leaves sender None;
\* the level is expected to set it before add).
SenderlessActors == {[a EXCEPT !.sender = FALSE] : a \in NewActors}

\* ActorContainer::add
add(actor) ==
    /\ apc = "idle"
    /\ Cardinality(issued) < MaxAdds
    /\ records' = spawn_records(actor)
    /\ free_stack' = spawn_free_stack
    /\ issued' = issued \cup {MkHandle(spawn_index, records'[spawn_index].generation)}
    /\ UNCHANGED <<target_descriptors, apc, cursor, arg, context, sent, freed,
                   notified, pre_dead>>
    /\ UNCHANGED <<gameVars, visitVars>>

----------------------------------------------------------------------------
(* ActorContainer::free, one step per loop iteration                       *)

\* free is entered; callers pass a handle for which contains holds.
free_begin(h) ==
    /\ apc = "idle"
    /\ contains(h)
    /\ apc' = "free"
    /\ arg' = h
    /\ cursor' = 1
    /\ notified' = {}
    /\ UNCHANGED <<records, free_stack, target_descriptors, context, sent,
                   issued, freed, pre_dead>>
    /\ UNCHANGED <<gameVars, visitVars>>

\* lines 143-147: the next actor of pool.iter_mut(); a Bot is notified.
free_notify_Skips ==
    /\ apc = "free"
    /\ cursor \in Slots
    /\ cursor' = cursor + 1
    /\ UNCHANGED <<records, notified, free_stack, target_descriptors, apc, arg,
                   context, sent, issued, freed, pre_dead>>
    /\ UNCHANGED <<gameVars, visitVars>>

free_notify ==
    /\ apc = "free"
    /\ cursor \in Slots
    /\ IF Occupied(cursor) /\ records[cursor].payload.kind = "Bot"
         THEN /\ records' = [records EXCEPT ![cursor].payload =
                                on_actor_removed(@, arg)]
              /\ notified' = notified \cup {cursor}
         ELSE UNCHANGED <<records, notified>>
    /\ cursor' = cursor + 1
    /\ UNCHANGED <<free_stack, target_descriptors, apc, arg, context, sent,
                   issued, freed, pre_dead>>
    /\ UNCHANGED <<gameVars, visitVars>>

\* line 149: self.pool.free(actor_handle), after the loop.
free_slot ==
    /\ apc = "free"
    /\ cursor > Len(records)
    /\ records' = pool_free_records(arg)
    /\ free_stack' = Append(free_stack, arg.index)
    /\ freed' = freed \cup {arg}
    /\ apc' = "idle"
    /\ cursor' = 0
    /\ arg' = NONE
    /\ notified' = {}
    /\ UNCHANGED <<target_descriptors, context, sent, issued, pre_dead>>
    /\ UNCHANGED <<gameVars, visitVars>>

----------------------------------------------------------------------------
(* ActorContainer::update                                                  *)

\* The contexts update is called with: the scene's body translations and
\* the picked-up flag of every item (the second item is never picked up).
UpdateContexts ==
    {[NoContext EXCEPT !.pos = [i \in Slots |-> records[i].payload.position],
                       !.picked = pk] :
        pk \in {q \in [Items -> BOOLEAN] : ~q[2]}}

\* The same contexts in a run whose events_receiver has been dropped (a
\* test that builds actors with a sender and keeps no receiver).
DroppedContexts == {[c EXCEPT !.receiver = FALSE] : c \in UpdateContexts}

RECURSIVE PairIter(_, _)
\* pool.pair_iter(): the descriptors of the live slots from index i on.
PairIter(i, ctx) ==
    IF i > Len(records) THEN <<>>
    ELSE (IF Occupied(i)
            THEN <<[handle |-> HandleAt(i),
                    health |-> records[i].payload.health,
                    position |-> ctx.pos[i]]>>
            ELSE <<>>) \o PairIter(i + 1, ctx)

\* lines 157-164: clear, then one push per live actor.
SnapshotWithoutClear(old, ctx) == old \o PairIter(1, ctx)
Snapshot(old, ctx) == PairIter(1, ctx)

update_snapshot(ctx) ==
    /\ apc = "idle"
    /\ ctx \in UpdateContexts \cup DroppedContexts
    /\ context' = ctx
    /\ target_descriptors' = Snapshot(target_descriptors, ctx)
    /\ apc' = "update"
    /\ cursor' = 1
    /\ sent' = <<>>
    /\ pre_dead' = {}
    /\ UNCHANGED <<records, free_stack, arg, issued, freed, notified>>
    /\ UNCHANGED <<gameVars, visitVars>>

\* (item pivot position - body translation).norm(), squared.
DistanceSq(p, q) ==
    (p[1] - q[1]) * (p[1] - q[1]) + (p[2] - q[2]) * (p[2] - q[2])
        + (p[3] - q[3]) * (p[3] - q[3])

\* line 179: distance < 1.25 && !item.is_picked_up()
PicksUpInclusive(ctx, i, k) ==
    /\ DistanceSq(ItemPos(k), ctx.pos[i]) <= PickupRadius * PickupRadius
    /\ ~ctx.picked[k]
PicksUp(ctx, i, k) ==
    /\ DistanceSq(ItemPos(k), ctx.pos[i]) < PickupRadius * PickupRadius
    /\ ~ctx.picked[k]

PickUpItem(h, k) == [type |-> "PickUpItem", actor |-> h, item |-> k]
RespawnActor(h) == [type |-> "RespawnActor", actor |-> h, item |-> 0]

RECURSIVE PickUps(_, _, _)
\* lines 174-190: the messages of the scan over context.items from item k on.
PickUps(ctx, i, k) ==
    IF k \notin Items THEN <<>>
    ELSE (IF PicksUp(ctx, i, k) THEN <<PickUpItem(HandleAt(i), k)>> ELSE <<>>)
            \o PickUps(ctx, i, k + 1)

\* The messages lines 173-202 send for slot i: was_dead is is_dead captured
\* before the variant's update, after is the actor that update left.
Emitted_LateIsDead(ctx, i, was_dead, after) ==
    (IF ~is_dead(after) THEN PickUps(ctx, i, 1) ELSE <<>>)
        \o (IF can_be_removed(after) THEN <<RespawnActor(HandleAt(i))>> ELSE <<>>)
Emitted_RespawnsDead(ctx, i, was_dead, after) ==
    (IF ~was_dead THEN PickUps(ctx, i, 1) ELSE <<>>)
        \o (IF is_dead(after) THEN <<RespawnActor(HandleAt(i))>> ELSE <<>>)
Emitted(ctx, i, was_dead, after) ==
    (IF ~was_dead THEN PickUps(ctx, i, 1) ELSE <<>>)
        \o (IF can_be_removed(after) THEN <<RespawnActor(HandleAt(i))>> ELSE <<>>)

\* lines 166-203: one iteration of the loop over pool.pair_iter_mut().
\* sender.as_ref().unwrap() panics without a sender, send(..).unwrap()
\* panics when the receiver is gone.
update_actor_SkipsSilently ==
    /\ apc = "update"
    /\ cursor \in Slots
    /\ IF ~Occupied(cursor)
         THEN /\ cursor' = cursor + 1
              /\ UNCHANGED <<records, sent, pre_dead, apc>>
         ELSE \E after \in Updated(records[cursor].payload, HandleAt(cursor)) :
                LET was_dead == is_dead(records[cursor].payload)
                    msgs == Emitted(context, cursor, was_dead, after)
                IN  /\ records' = [records EXCEPT ![cursor].payload = after]
                    /\ pre_dead' = IF was_dead THEN pre_dead \cup {cursor}
                                   ELSE pre_dead
                    /\ IF msgs # <<>> /\ after.sender /\ ~context.receiver
                         THEN /\ apc' = "panicked"
                              /\ UNCHANGED <<sent, cursor>>
                         ELSE /\ sent' = IF after.sender THEN sent \o msgs
                                         ELSE sent
                              /\ cursor' = cursor + 1
                              /\ UNCHANGED apc
    /\ UNCHANGED <<free_stack, target_descriptors, arg, context, issued, freed,
                   notified>>
    /\ UNCHANGED <<gameVars, visitVars>>

update_actor ==
    /\ apc = "update"
    /\ cursor \in Slots
    /\ IF ~Occupied(cursor)
         THEN /\ cursor' = cursor + 1
              /\ UNCHANGED <<records, sent, pre_dead, apc>>
         ELSE \E after \in Updated(records[cursor].payload, HandleAt(cursor)) :
                LET was_dead == is_dead(records[cursor].payload)
                    msgs == Emitted(context, cursor, was_dead, after)
                IN  /\ records' = [records EXCEPT ![cursor].payload = after]
                    /\ pre_dead' = IF was_dead THEN pre_dead \cup {cursor}
                                   ELSE pre_dead
                    /\ IF msgs # <<>> /\ (~after.sender \/ ~context.receiver)
                         THEN /\ apc' = "panicked"
                              /\ UNCHANGED <<sent, cursor>>
                         ELSE /\ sent' = sent \o msgs
                              /\ cursor' = cursor + 1
                              /\ UNCHANGED apc
    /\ UNCHANGED <<free_stack, target_descriptors, arg, context, issued, freed,
                   notified>>
    /\ UNCHANGED <<gameVars, visitVars>>

\* update returns.
update_end ==
    /\ apc = "update"
    /\ cursor > Len(records)
    /\ apc' = "idle"
    /\ cursor' = 0
    /\ context' = NoContext
    /\ sent' = <<>>
    /\ pre_dead' = {}
    /\ UNCHANGED <<records, free_stack, target_descriptors, arg, issued, freed,
                   notified>>
    /\ UNCHANGED <<gameVars, visitVars>>

----------------------------------------------------------------------------
(* ActorContainer::handle_event                                            *)

\* The actor in slot i owns rigid body i, whose first collider is collider i.
get_body(i) == i
capsule_collider(body) == body

Colliders ==
    {capsule_collider(get_body(i)) : i \in {j \in Slots : Occupied(j)}}
        \cup {PadCollider(j) : j \in JumpPads} \cup OtherColliders

\* bodies.handle_map().key_of(colliders.native_ref(c).parent())
ParentBody(c) ==
    IF \E j \in JumpPads : PadCollider(j) = c
      THEN PadBody(CHOOSE j \in JumpPads : PadCollider(j) = c)
      ELSE c

ContactEvents ==
    {[kind |-> kd, a |-> ca, b |-> cb] :
        kd \in {"Started", "Stopped"}, ca \in Colliders, cb \in Colliders}

\* lines 253-254
LaunchesOneWay(ev, i, j) ==
    capsule_collider(get_body(i)) = ev.a /\ ParentBody(ev.b) = PadBody(j)
Launches_AnyCapsule(ev, i, j) ==
    ParentBody(ev.b) = PadBody(j) \/ ParentBody(ev.a) = PadBody(j)
Launches(ev, i, j) ==
    \/ capsule_collider(get_body(i)) = ev.a /\ ParentBody(ev.b) = PadBody(j)
    \/ capsule_collider(get_body(i)) = ev.b /\ ParentBody(ev.a) = PadBody(j)

RECURSIVE OverPads(_, _, _, _)
\* lines 209-258: the inner loop over context.jump_pads from pad j on.
OverPads(ev, i, j, v) ==
    IF j \notin JumpPads THEN v
    ELSE OverPads(ev, i, j + 1, IF Launches(ev, i, j) THEN PadForce(j) ELSE v)

\* The contexts handle_event is called with: a velocity for every body.
EventContexts ==
    {[NoContext EXCEPT !.linvel = lv] :
        lv \in {q \in [Slots -> Velocities] :
                  \A i \in Slots : ~Occupied(i) => q[i] = <<0, 0, 0>>}}

handle_event(ev, ctx) ==
    /\ apc = "idle"
    /\ ev \in ContactEvents /\ ev.a # ev.b
    /\ ctx \in EventContexts
    /\ apc' = "handled"
    /\ context' =
         [ctx EXCEPT !.event = ev,
                     !.linvel_before = ctx.linvel,
                     !.linvel = [i \in Slots |->
                        IF ev.kind = "Started" /\ Occupied(i)
                          THEN OverPads(ev, i, 1, ctx.linvel[i])
                          ELSE ctx.linvel[i]]]
    /\ UNCHANGED <<records, free_stack, target_descriptors, cursor, arg, sent,
                   issued, freed, notified, pre_dead>>
    /\ UNCHANGED <<gameVars, visitVars>>

\* handle_event returns.
handle_event_end ==
    /\ apc = "handled"
    /\ apc' = "idle"
    /\ context' = NoContext
    /\ UNCHANGED <<records, free_stack, target_descriptors, cursor, arg, sent,
                   issued, freed, notified, pre_dead>>
    /\ UNCHANGED <<gameVars, visitVars>>

----------------------------------------------------------------------------
(* Visit for Actor: one visitor run over a sequence of actors              *)

\* Default::default() of a variant: full health, no target, no sender.
DefaultOf(kind) ==
    [kind |-> kind, health |-> 1, despawn |-> FALSE, target |-> NONE,
     sender |-> FALSE, position |-> Origin]

\* impl Default for Actor
DefaultActor == DefaultOf("Bot")

\* The fields the variant's own visit stores in the "Data" region.
DataOf(actor) == [health |-> actor.health, position |-> actor.position]
WithData(actor, data) ==
    [actor EXCEPT !.health = data.health, !.position = data.position]

\* Actors a level is saved with.
SavedActors ==
    {[kind |-> k, health |-> hp, despawn |-> FALSE, target |-> NONE,
      sender |-> TRUE, position |-> <<4, 0, 0>>] : k \in Kinds, hp \in {0, 1}}

RECURSIVE SeqsUpTo(_, _)
SeqsUpTo(S, n) ==
    IF n = 0 THEN {<<>>}
    ELSE LET shorter == SeqsUpTo(S, n - 1)
         IN shorter \cup {Append(q, x) : q \in shorter, x \in S}

\* The regions a visitor holds after it was written over actors.
WrittenRegions(actors) ==
    [i \in 1..Len(actors) |->
        [KindId |-> id(actors[i]), Data |-> DataOf(actors[i])]]

\* Files a reading visitor is loaded from: what was written, or that with
\* the kind tag of one region replaced (a file is bytes on disk).
ReadableRegions ==
    {visitor.regions} \cup
    {[visitor.regions EXCEPT ![i].KindId = t] :
        i \in 1..Len(visitor.regions), t \in Tags}

InitVisit ==
    /\ visitor = [reading |-> FALSE, regions |-> <<>>]
    /\ visited = <<>>
    /\ vcursor = 0
    /\ vpc = "idle"
    /\ vresult = Ok(<<>>)
    /\ written = <<>>

\* A writing visitor is created and run over the actors of a container.
visit_begin_write(actors) ==
    /\ vpc = "idle"
    /\ Len(actors) \in 1..MaxVisited
    /\ \A i \in 1..Len(actors) : actors[i] \in SavedActors
    /\ visitor' = [reading |-> FALSE, regions |-> <<>>]
    /\ visited' = actors
    /\ written' = actors
    /\ vcursor' = 1
    /\ vpc' = "visiting"
    /\ vresult' = Ok(<<>>)
    /\ UNCHANGED <<gameVars, actorVars>>

\* A reading visitor is loaded and run over as many default actors as it
\* holds regions.
visit_begin_read(regions) ==
    /\ vpc = "idle"
    /\ visitor.regions # <<>>
    /\ regions \in ReadableRegions
    /\ visitor' = [reading |-> TRUE, regions |-> regions]
    /\ visited' = [i \in 1..Len(regions) |-> DefaultActor]
    /\ vcursor' = 1
    /\ vpc' = "visiting"
    /\ vresult' = Ok(<<>>)
    /\ UNCHANGED written
    /\ UNCHANGED <<gameVars, actorVars>>

\* Actor::visit on visited[vcursor].
visit ==
    /\ vpc = "visiting"
    /\ LET self == visited[vcursor]
           \* kind_id after kind_id.visit("KindId", visitor)
           kind_id == IF visitor.reading THEN visitor.regions[vcursor].KindId
                      ELSE id(self)
           made == from_id(kind_id)
       IN IF visitor.reading /\ ~made.ok
            THEN \* the `?` returns before *self is assigned
                 /\ vresult' = Err(made.value)
                 /\ vpc' = "done"
                 /\ UNCHANGED <<visitor, visited, vcursor>>
            ELSE /\ IF visitor.reading
                      THEN /\ visited' = [visited EXCEPT ![vcursor] =
                                  WithData(DefaultOf(made.value),
                                           visitor.regions[vcursor].Data)]
                           /\ UNCHANGED visitor
                      ELSE /\ visitor' = [visitor EXCEPT !.regions =
                                  Append(@, [KindId |-> kind_id,
                                             Data |-> DataOf(self)])]
                           /\ UNCHANGED visited
                 /\ IF vcursor = Len(visited)
                      THEN /\ vpc' = "done"
                           /\ UNCHANGED vcursor
                      ELSE /\ vcursor' = vcursor + 1
                           /\ UNCHANGED vpc
                 /\ UNCHANGED vresult
    /\ UNCHANGED written
    /\ UNCHANGED <<gameVars, actorVars>>

\* The visitor run returns to its caller.
visit_end ==
    /\ vpc = "done"
    /\ vpc' = "idle"
    /\ UNCHANGED <<visitor, visited, vcursor, vresult, written>>
    /\ UNCHANGED <<gameVars, actorVars>>

----------------------------------------------------------------------------
(* Specifications                                                          *)

Init == InitGame /\ InitActors /\ InitVisit

Next ==
    \/ \E t \in Loads : LoaderBuild(t)
    \/ \E t \in Loads : LoaderLock(t)
    \/ \E t \in Loads : LoaderStore(t)
    \/ UpdatePoll
    \/ UpdateCommit
    \/ UpdateEngine
    \/ HandleStartNewGame
    \/ HandleSaveGame
    \/ HandleLoadGame
    \/ HandleQuitGame
    \/ HandleEndMatch
    \/ HandleOther
    \/ UpdateEnd
    \/ PressEscape
    \/ \E m \in MenuMessages : MenuSend(m)
    \/ ExitLoop
    \/ CloseRequested

Spec == Init /\ [][Next]_vars

\* Fair scheduling: the main loop keeps running fixed-timestep updates
\* while it has not exited; a spawned loader thread keeps being scheduled;
\* a loader blocked in Mutex::lock gets the mutex if it is free again and
\* again (the main thread holds it only inside the poll, once per update).
Fairness ==
    /\ WF_vars(MainStep)
    /\ \A t \in Loads :
          /\ WF_vars(LoaderBuild(t))
          /\ SF_vars(LoaderLock(t))
          /\ WF_vars(LoaderStore(t))

SpecFair == Init /\ [][Next]_vars /\ Fairness

NextActors ==
    \/ \E actor \in NewActors : add(actor)
    \/ \E h \in LiveHandles : free_begin(h)
    \/ free_notify
    \/ free_slot
    \/ \E ctx \in UpdateContexts : update_snapshot(ctx)
    \/ update_actor
    \/ update_end

SpecActors == Init /\ [][NextActors]_vars

NextContact ==
    \/ \E actor \in NewActors : add(actor)
    \/ \E h \in LiveHandles : free_begin(h)
    \/ free_notify
    \/ free_slot
    \/ \E ev \in ContactEvents, ctx \in EventContexts : handle_event(ev, ctx)
    \/ handle_event_end

SpecContact == Init /\ [][NextContact]_vars

\* ActorContainer driven by a test: the receiver may be gone.
NextHarness ==
    \/ \E actor \in NewActors : add(actor)
    \/ \E ctx \in UpdateContexts \cup DroppedContexts : update_snapshot(ctx)
    \/ update_actor
    \/ update_end

SpecHarness == Init /\ [][NextHarness]_vars

\* ActorContainer holding actors whose sender was never set.
NextSenderless ==
    \/ \E actor \in NewActors \cup SenderlessActors : add(actor)
    \/ \E ctx \in UpdateContexts : update_snapshot(ctx)
    \/ update_actor
    \/ update_end

SpecSenderless == Init /\ [][NextSenderless]_vars

NextVisit ==
    \/ \E actors \in SeqsUpTo(SavedActors, MaxVisited) : visit_begin_write(actors)
    \/ \E regions \in ReadableRegions : visit_begin_read(regions)
    \/ visit
    \/ visit_end

SpecVisit == Init /\ [][NextVisit]_vars

----------------------------------------------------------------------------
(* Properties of ActorContainer                                            *)

OccupiedIn(recs, i) == i \in 1..Len(recs) /\ recs[i].payload # NoActor

\* C1: a handle returned by add is contained until its free and never after,
\* also once its slot is reused: the slot's live handle has a strictly
\* larger generation than every freed handle of that slot.
C1_HandleValidity ==
    /\ \A h \in issued : contains(h) <=> h \notin freed
    /\ \A h \in freed : \A l \in LiveHandles :
          l.index = h.index => l.generation > h.generation

\* C1 witness: a freed handle whose slot holds a later actor.
C1_Witness ==
    \E h \in freed : Occupied(h.index) /\ ~contains(h)
                        /\ HandleAt(h.index) \in issued

\* C7: after the snapshot pass of update, target_descriptors holds each live
\* handle exactly once and nothing else.
C7_SnapshotIsLiveSet ==
    apc = "update" =>
        /\ {target_descriptors[n].handle : n \in 1..Len(target_descriptors)}
              = {h \in issued : contains(h)}
        /\ Len(target_descriptors) = Cardinality({h \in issued : contains(h)})
        /\ Len(target_descriptors) = count

\* C7 witness: the snapshot pass has just run over a pool with a live slot
\* and a freed slot.
C7_Witness ==
    /\ apc = "update" /\ cursor = 1
    /\ \E i \in Slots : ~Occupied(i)
    /\ Len(target_descriptors) = 1

\* C8: the PickUpItem messages of an update call are exactly one per pair of
\* an actor not dead before its update and an unpicked item strictly closer
\* than the pickup radius to the actor's body.
C8_PickUpMessages ==
    apc = "update" =>
        /\ \A i \in Slots : \A k \in Items :
              CountOf(sent, PickUpItem(MkHandle(i, records[i].generation), k))
                = IF /\ i < cursor
                     /\ Occupied(i)
                     /\ i \notin pre_dead
                     /\ ~context.picked[k]
                     /\ DistanceSq(ItemPos(k), records[i].payload.position)
                           < PickupRadius * PickupRadius
                    THEN 1 ELSE 0
        /\ \A n \in 1..Len(sent) :
              sent[n].type = "PickUpItem" =>
                  sent[n].actor \in LiveHandles /\ sent[n].item \in Items

\* C8 witness: at the end of an update, an actor alive before its update sits
\* at distance exactly 1.25 of the unpicked first item, and a message was sent.
C8_Witness ==
    /\ apc = "update" /\ cursor > Len(records)
    /\ ~context.picked[1]
    /\ \E i \in Slots :
          /\ Occupied(i) /\ i \notin pre_dead
          /\ DistanceSq(ItemPos(1), records[i].payload.position)
                = PickupRadius * PickupRadius
          /\ CountOf(sent, PickUpItem(HandleAt(i), 1)) = 0
    /\ \E n \in 1..Len(sent) : sent[n].type = "PickUpItem" /\ sent[n].item = 1

\* C9: a slot is freed, or offered to add for reuse, only by free, for
\* free's handle, and only after every Bot in the pool was notified and
\* holds no reference to that handle.
C9_NotifyBeforeFree ==
    [][\A i \in Slots :
          (Occupied(i) /\ (~OccupiedIn(records', i)
                             \/ CountOf(free_stack', i) > 0)) =>
              /\ apc = "free"
              /\ arg = HandleAt(i)
              /\ \A j \in Slots :
                    (Occupied(j) /\ records[j].payload.kind = "Bot") =>
                        j \in notified /\ records[j].payload.target # arg]_vars

\* C9 witness: free has notified a Bot other than the removed actor and is
\* about to free the slot.
C9_Witness ==
    /\ apc = "free" /\ cursor > Len(records)
    /\ \E j \in notified : j # arg.index

----------------------------------------------------------------------------
(* Properties of handle_event                                              *)

\* C10: after a started contact (a, b), an actor whose capsule is one side
\* and a jump pad whose body owns the other side leave the actor's body with
\* the pad's force as linear velocity, whichever side is which.
C10_JumpPadLaunch ==
    (apc = "handled" /\ context.event.kind = "Started") =>
        \A i \in Slots : \A j \in JumpPads :
            (/\ Occupied(i)
             /\ \/ (capsule_collider(get_body(i)) = context.event.a
                      /\ ParentBody(context.event.b) = PadBody(j))
                \/ (capsule_collider(get_body(i)) = context.event.b
                      /\ ParentBody(context.event.a) = PadBody(j)))
            => context.linvel[i] = PadForce(j)

\* C10 witness: the event names the pad's collider first and the actor's
\* capsule second, and the actor was launched.
C10_Witness ==
    /\ apc = "handled" /\ context.event.kind = "Started"
    /\ \E i \in Slots : \E j \in JumpPads :
          /\ Occupied(i)
          /\ context.event.b = capsule_collider(get_body(i))
          /\ context.event.a = PadCollider(j)
          /\ context.linvel[i] = PadForce(j)

----------------------------------------------------------------------------
(* Properties of the level load                                            *)

\* A step of the load poll of Game::update (lines 564-588).
PollStep == pc \in {"idle", "locked"} /\ pc' \in {"locked", "engine"} /\ pc' # pc

Running == {t \in Loads : thread[t] \in {"building", "built", "locked"}}

\* C2: a poll that runs before the loader has stored its result swaps no
\* level in, keeps load_context and keeps the loading screen visible.
C2_NoSwapBeforeStore ==
    [][(PollStep /\ load_context # 0 /\ ctx_level[load_context] = NoLevel) =>
          /\ level' = level
          /\ load_context' = load_context
          /\ loading_visible /\ loading_visible'
          /\ poll' # "swap"]_vars

\* C2 witness: a poll found the result absent; no level, the screen is shown.
C2_Witness ==
    /\ pc = "engine" /\ poll = "progress"
    /\ load_context # 0 /\ ctx_level[load_context] = NoLevel
    /\ level = NoLevel /\ loading_visible

\* C3: the first poll after the loader stored the level acquires the lock,
\* swaps that level in, hides the loading screen and clears load_context;
\* no result is taken twice.
C3_SwapOnNextPoll ==
    [][/\ (pc = "idle" /\ PollStep /\ load_context # 0
              /\ ctx_level[load_context] # NoLevel) => pc' = "locked"
       /\ (pc = "locked" /\ PollStep /\ ctx_level[load_context] # NoLevel) =>
              /\ level' = ctx_level[load_context]
              /\ load_context' = 0
              /\ ~loading_visible'
              /\ ctx_level'[load_context] = NoLevel
       /\ \A c \in Loads : ctx_takes'[c] <= 1]_vars

\* C3 witness: a poll has swapped a loaded level in.
C3_Witness ==
    /\ pc = "engine" /\ poll = "swap"
    /\ level.kind = "new" /\ load_context = 0 /\ ~loading_visible

\* C4: every LoadContext is written at most once, by the one loader thread
\* that captured it, and taken at most once, never before the write.
C4_OneShotCell ==
    \A c \in Loads :
        /\ ctx_writes[c] <= 1
        /\ ctx_takes[c] <= ctx_writes[c]
        /\ Cardinality({t \in Loads : thread_ctx[t] = c}) <= 1
        /\ ctx_level[c] # NoLevel => (ctx_writes[c] = 1 /\ ctx_takes[c] = 0)
        /\ lock_holder[c] = "main" => (pc = "locked" /\ load_context = c)

\* C4 witness: a context was written and then taken.
C4_Witness ==
    \E c \in Loads : ctx_writes[c] = 1 /\ ctx_takes[c] = 1

\* C5: while a load is in progress the main thread always has a step it can
\* take, whatever the loader threads are doing.
C5_MainNeverBlocks ==
    (load_context # 0 /\ pc # "exited") => ENABLED MainStep

\* C5 witness: the poll found the lock held by the loader and went on.
C5_Witness ==
    /\ load_context # 0 /\ lock_holder[load_context] = "loader"
    /\ pc = "engine" /\ poll = "busy"

\* C6: at most one loader thread is running.
C6_LoadsNeverOverlap == Cardinality(Running) <= 1

----------------------------------------------------------------------------
(* Properties of the kind tag and of a failing load                        *)

\* The handle_messages iteration that ran load_game and logged the error of
\* a level visit (an unknown actor kind tag).
FailedLevelLoad ==
    /\ pc = "messages"
    /\ queue # <<>> /\ Head(queue) = "LoadGame"
    /\ queue' = Tail(queue)
    /\ load_error' = "level_err"

\* C11: a load that fails on an out-of-range actor kind tag returns its
\* error to the caller, which logs it, and leaves the level that was live
\* before the load as it was.
C11_FailedLoadKeepsLevel == [][FailedLevelLoad => level' = level]_vars

\* Entries of `visited` the running (or finished) read has rebuilt.
Rebuilt(i) ==
    /\ i \in 1..Len(visited)
    /\ i < vcursor \/ (vpc # "visiting" /\ vresult.ok)

\* C12: the kind tag round-trips.  Writing stores Actor::id (Player = 0,
\* Bot = 1); reading what was written rebuilds every actor with the variant
\* it was written with; and the id of every actor rebuilt from a valid tag
\* is that tag.
C12_KindTagRoundTrip ==
    /\ ~visitor.reading =>
          \A i \in 1..Len(visitor.regions) :
              visitor.regions[i].KindId =
                  (IF written[i].kind = "Player" THEN 0 ELSE 1)
    /\ (visitor.reading /\ vpc = "done"
          /\ visitor.regions = WrittenRegions(written)) =>
          /\ vresult.ok
          /\ Len(visited) = Len(written)
          /\ \A i \in 1..Len(written) :
                /\ visited[i].kind = written[i].kind
                /\ DataOf(visited[i]) = DataOf(written[i])
    /\ visitor.reading =>
          \A i \in 1..Len(visited) :
              Rebuilt(i) => id(visited[i]) = visitor.regions[i].KindId

C12_Witness ==
    /\ visitor.reading /\ vpc = "done"
    /\ visitor.regions = WrittenRegions(written)
    /\ Len(written) = 2
    /\ written[1].kind = "Player" /\ written[2].kind = "Bot"
    /\ visited[1].kind = "Player" /\ visited[2].kind = "Bot"

----------------------------------------------------------------------------
(* Properties of the message channel                                       *)

\* What handle_messages does with message m in the step at hand, as far as
\* the Game's own fields show it.
Handled(m) ==
    /\ n_loads' = (IF m = "StartNewGame" THEN n_loads + 1 ELSE n_loads)
    /\ running' = (IF m = "QuitGame" THEN FALSE ELSE running)
    /\ leader_board_visible' = (IF m = "EndMatch" THEN TRUE
                                ELSE leader_board_visible)
    /\ m \in {"StartNewGame", "QuitGame", "EndMatch"} => level' = NoLevel
    /\ m \in {"SaveGame", "Other"} =>
          UNCHANGED <<level, load_context, menu_visible, hud_visible,
                      loading_visible, thread>>
    /\ m # "LoadGame" => load_error' = load_error

\* C13: the channel is consumed only by handle_messages, which runs once
\* per Game::update, after the engine and level update, and handles the
\* messages first in, first out: every step that changes the channel
\* either appends one message or is handle_messages removing and handling
\* exactly the oldest one, and the update ends on the empty channel.
C13_FifoOncePerUpdate ==
    [][/\ queue' # queue =>
            \/ \E m \in MenuMessages \cup LevelMessages :
                   queue' = Append(queue, m)
            \/ /\ pc = "messages" /\ pc' = "messages"
               /\ queue # <<>> /\ queue' = Tail(queue)
               /\ Handled(Head(queue))
       /\ (pc' = "messages" /\ pc # "messages") => pc = "engine"
       /\ (pc = "messages" /\ pc' # "messages") =>
            (queue = <<>> /\ pc' = "idle")
      ]_vars

\* C13 witness: handle_messages is about to run over a message sent by the
\* loader thread during Level::new (the channel was empty when the last
\* update ended, and the menu sends only between updates) followed by one
\* sent by the menu on the main thread.
C13_Witness ==
    /\ pc = "messages"
    /\ queue = <<"Other", "SaveGame">>
    /\ \E t \in Loads : thread[t] \in {"built", "locked"}

----------------------------------------------------------------------------
(* Properties of the messages update emits                                 *)

\* C14: update does not panic on emitting a message when the channel's
\* receiver has been dropped.
C14_SendNeverPanics == ~context.receiver => apc # "panicked"

----------------------------------------------------------------------------
(* Properties of count                                                     *)

\* C15: after any sequence of add and free, count() is the number of
\* handles for which contains holds: every add raised it by one, every
\* free of a valid handle lowered it by one, and freed slots, whose
\* storage the pool keeps, are not counted.
C15_CountIsLiveEntries ==
    /\ count = Cardinality({h \in issued : contains(h)})
    /\ count = Cardinality(issued) - Cardinality(freed)
    /\ count <= Len(records)

\* C15 witness: two actors were added and one freed; its slot is retained.
C15_Witness ==
    /\ apc = "idle"
    /\ Cardinality(issued) = 2 /\ Cardinality(freed) = 1
    /\ Len(records) = 2 /\ count = 1

----------------------------------------------------------------------------
(* Properties of one update tick                                           *)

\* Descriptors of the actors the running update has already visited.  The
\* snapshot is taken before any actor is updated, so a descriptor's health
\* is the actor's health before its update in this tick.
VisitedDescriptors ==
    {n \in 1..Len(target_descriptors) :
        target_descriptors[n].handle.index < cursor}

\* C16: whether an actor's pickup scan runs depends only on is_dead as it
\* was before the actor's update in this tick: an actor alive before its
\* update is scanned, also when the update killed it; an actor dead before
\* is not; and the actor's PickUpItem messages precede its RespawnActor.
C16_ScanGatedBeforeUpdate ==
    apc = "update" =>
        \A n \in VisitedDescriptors :
            LET d == target_descriptors[n]
                i == d.handle.index
            IN  /\ \A k \in Items :
                       CountOf(sent, PickUpItem(d.handle, k)) =
                           (IF d.health > 0 /\ PicksUp(context, i, k)
                              THEN 1 ELSE 0)
                /\ \A a, b \in 1..Len(sent) :
                       (/\ sent[a] = RespawnActor(d.handle)
                        /\ sent[b].type = "PickUpItem"
                        /\ sent[b].actor = d.handle) => b < a

\* C16 witness: an actor alive at the snapshot died in its update, was
\* scanned all the same, and its respawn request follows its pickup.
C16_Witness ==
    /\ apc = "update"
    /\ \E n \in VisitedDescriptors :
          LET d == target_descriptors[n]
          IN  /\ d.health > 0
              /\ records[d.handle.index].payload.health <= 0
              /\ \E k \in Items : CountOf(sent, PickUpItem(d.handle, k)) = 1
              /\ CountOf(sent, RespawnActor(d.handle)) = 1

\* C17: in one update, RespawnActor is emitted for a handle exactly when
\* can_be_removed holds for the actor after its update in this tick, and
\* at most once.
C17_RespawnIffRemovable ==
    apc = "update" =>
        \A i \in Slots :
            CountOf(sent, RespawnActor(HandleAt(i))) =
                (IF i < cursor /\ Occupied(i)
                      /\ can_be_removed(records[i].payload)
                   THEN 1 ELSE 0)

\* C17 witness: of two updated actors, the one that is dead but not yet
\* removable got no respawn request and the removable one got exactly one.
C17_Witness ==
    /\ apc = "update" /\ cursor > 2
    /\ \E i, j \in Slots :
          /\ Occupied(i) /\ Occupied(j)
          /\ is_dead(records[i].payload) /\ ~can_be_removed(records[i].payload)
          /\ can_be_removed(records[j].payload)
          /\ CountOf(sent, RespawnActor(HandleAt(i))) = 0
          /\ CountOf(sent, RespawnActor(HandleAt(j))) = 1

----------------------------------------------------------------------------
(* Properties of start_new_game and of the Loading state                   *)

\* C18: start_new_game has torn the existing level down when the loader
\* thread it spawns starts to run: the step that spawns a loader leaves no
\* level set, and while loader t runs no level built by an earlier load is
\* live.
C18_TeardownBeforeSpawn ==
    [][/\ \A t \in Loads :
            (thread[t] = "unspawned" /\ thread'[t] # "unspawned") =>
                (thread'[t] = "building" /\ level' = NoLevel)
       /\ \A t \in Loads :
            (thread'[t] \in {"building", "built", "locked"}
                /\ level'.kind = "new") => level'.id > t
      ]_vars

\* C18 witness: the level of the first load was swapped in, and the loader
\* of a second start_new_game is running with no level set.
C18_Witness ==
    /\ ctx_takes[1] = 1
    /\ thread[2] = "building"
    /\ level = NoLevel

\* C19: whenever load_context is set, the loading screen is visible and
\* the main menu is hidden.
C19_LoadingHidesMenu ==
    load_context # 0 => (loading_visible /\ ~menu_visible)

\* The poll of one Game::update has finished in this step.
PollDone == PollStep /\ pc' = "engine"

\* C20: every poll made while loading that does not get the lock or finds
\* the result absent sends a progress update and leaves the state Loading.
C20_ProgressOnEveryMiss ==
    [][(PollDone /\ load_context # 0 /\ poll' # "swap") =>
          /\ poll' = "progress"
          /\ load_context' = load_context
          /\ level' = level
      ]_vars

----------------------------------------------------------------------------
(* Properties of an update over actors without a sender                    *)

\* The running update has (or had) a message to emit for the live actor in
\* slot i: it was alive at the snapshot and an unpicked item is in range,
\* or it can be removed after its update.
Due(i) ==
    \/ can_be_removed(records[i].payload)
    \/ \E n \in 1..Len(target_descriptors) :
          /\ target_descriptors[n].handle = HandleAt(i)
          /\ target_descriptors[n].health > 0
          /\ \E k \in Items : PicksUp(context, i, k)

MessagesFor(h) == {n \in 1..Len(sent) : sent[n].actor = h}

\* C21: an update that has a message to emit for an actor without a sender
\* panics and emits nothing for that actor; it never goes on past it.
C21_MissingSenderPanics ==
    /\ apc = "update" =>
          \A i \in Slots :
              (i < cursor /\ Occupied(i) /\ ~records[i].payload.sender) =>
                  (~Due(i) /\ MessagesFor(HandleAt(i)) = {})
    /\ (apc = "panicked" /\ context.receiver) =>
          /\ ~records[cursor].payload.sender
          /\ Due(cursor)
          /\ MessagesFor(HandleAt(cursor)) = {}

\* C21 witness: the update panicked at a sender-less actor after emitting
\* for an actor that has its sender.
C21_Witness ==
    /\ apc = "panicked" /\ context.receiver
    /\ cursor = 2
    /\ ~records[2].payload.sender /\ records[1].payload.sender
    /\ MessagesFor(HandleAt(1)) # {}
    /\ MessagesFor(HandleAt(2)) = {}

----------------------------------------------------------------------------
(* Frame of handle_event                                                   *)

\* C22: handle_event changes a body's linear velocity only for a started
\* contact between that live actor's capsule collider and a collider of
\* some jump pad's rigid body; every other velocity is as it was.
C22_OnlyMatchingPairsLaunched ==
    apc = "handled" =>
        \A i \in Slots :
            context.linvel[i] # context.linvel_before[i] =>
                /\ context.event.kind = "Started"
                /\ Occupied(i)
                /\ \E j \in JumpPads :
                      \/ (capsule_collider(get_body(i)) = context.event.a
                            /\ ParentBody(context.event.b) = PadBody(j))
                      \/ (capsule_collider(get_body(i)) = context.event.b
                            /\ ParentBody(context.event.a) = PadBody(j))

\* C22 witness: of two moving actors one touched a jump pad and was
\* launched, the other kept its velocity.
C22_Witness ==
    /\ apc = "handled" /\ context.event.kind = "Started"
    /\ \E i, k \in Slots :
          /\ Occupied(i) /\ Occupied(k) /\ i # k
          /\ context.linvel_before[i] = <<1, 0, 0>>
          /\ context.linvel[i] # context.linvel_before[i]
          /\ context.linvel_before[k] = <<1, 0, 0>>
          /\ context.linvel[k] = context.linvel_before[k]

----------------------------------------------------------------------------
(* Properties of load_game and of the swap                                 *)

\* The handle_messages iteration that runs load_game.
LoadGameStep ==
    /\ pc = "messages"
    /\ queue # <<>> /\ Head(queue) = "LoadGame"
    /\ queue' = Tail(queue)

C24_SwapFindsNoLevel ==
    (pc = "locked" /\ ctx_level[load_context] # NoLevel) => level = NoLevel

\* The handle_messages iteration that runs start_new_game.
StartNewGameStep ==
    /\ pc = "messages"
    /\ queue # <<>> /\ Head(queue) = "StartNewGame"
    /\ queue' = Tail(queue)

\* The step of Game::update that commits the loaded level.
CommitStep == pc = "locked" /\ pc' = "engine" /\ poll' = "swap"

\* What a step may do to the loading screen and to load_context.
LoadingScreenFollows ==
    /\ (loading_visible' <=> (load_context' # 0))
    /\ (load_context' # load_context \/ loading_visible' # loading_visible) =>
          \/ (StartNewGameStep /\ load_context' # 0)
          \/ (CommitStep /\ load_context' = 0)

\* C25: the loading screen's requested visibility is whether load_context
\* is set; both change only together, in start_new_game (shown, set) and
\* in the commit of Game::update (hidden, cleared).
C25_LoadingScreenTracksContext ==
    /\ (loading_visible <=> (load_context # 0))
    /\ [][LoadingScreenFollows]_vars

\* C25 witness: a first load was committed and a second one is running
\* with the menu brought back by Escape; the loading screen is showing.
C25_Witness ==
    /\ ctx_takes[1] = 1
    /\ load_context = 2 /\ loading_visible /\ menu_visible

\* C26: the only result Game::update commits is the one written into the
\* LoadContext of the most recent start_new_game call; the result of a
\* superseded loader thread is never swapped in.
C26_OnlyLatestLoadCommitted ==
    [][(level' # level /\ level'.kind = "new") =>
          /\ CommitStep
          /\ level'.id = n_loads
          /\ thread_ctx[level'.id] = load_context
          /\ load_context = NewContext(n_loads)
      ]_vars

\* C26 witness: the superseded loader stored its result into its orphaned
\* context, where it stays, and the level of the later load is live.
C26_Witness ==
    /\ thread[1] = "done" /\ ctx_level[1] = NewLevel(1)
    /\ level = NewLevel(2) /\ load_context = 0

----------------------------------------------------------------------------
(* Progress of a load                                                      *)

\* C27: under fair scheduling every load started by start_new_game is
\* eventually committed by some Game::update, unless a further
\* StartNewGame was handled after it or the main loop has exited.
C27_EveryLoadCommitted ==
    \A t \in Loads :
        (thread[t] = "building") ~>
            (ctx_takes[t] = 1 \/ n_loads > t \/ pc = "exited")

\* C27 witness: the one load that was started has been committed; its
\* level is live and the loader state is back to Idle.
C27_Witness ==
    /\ n_loads = 1 /\ ctx_takes[1] = 1
    /\ thread[1] = "done"
    /\ level = NewLevel(1) /\ load_context = 0
    /\ pc = "idle"

============================================================================
